---------------------------- MODULE Spec2Model ----------------------------
(***************************************************************************)
(* StreamSubscriptionMatcher: match() invocations of one matcher object,   *)
(* its AsyncRefreshCache of active subscriptions, and the batched SNS      *)
(* publishes of every invocation.                                          *)
(*                                                                         *)
(* JavaScript runs one callback at a time.  A call of match() runs to its   *)
(* first await and returns its promise to the caller.  Every await         *)
(* suspends match(), also on a promise that is settled already: what       *)
(* follows the await is a continuation, queued when the awaited promise    *)
(* settles and run in the order of the queue (microtasks).  An external    *)
(* event (the persistence call of the loader settling, one publish         *)
(* settling) is handled only when that queue is empty.  Every action is    *)
(* one such turn: a call, the handling of an event, or one continuation.   *)
(***************************************************************************)
EXTENDS Integers, Sequences, FiniteSets

VARIABLES now, cache, loaderStarts, loaderSettles, lastLoad, lastAnswer, inv,
          microtasks, tq

vars == <<now, cache, loaderStarts, loaderSettles, lastLoad, lastAnswer, inv,
          microtasks, tq>>

(***************************************************************************)
(* Program constants                                                       *)
(***************************************************************************)
SNS_MAX_BATCH_SIZE == 10

ACTIVE_SUBSCRIPTIONS_CACHE_REFRESH_TIMEOUT == 60000

(***************************************************************************)
(* Bounds of the model                                                     *)
(***************************************************************************)
\* match() invocations on the one matcher, numbered in order of arrival
MaxInvocations == 3

\* change records in one stream event, full-size inputs (SpecDispatch)
MaxRecords == 8

\* raw subscription records the persistence layer returns (SpecDispatch)
MaxSubs == 3

\* raw subscription records, for the overlapping invocations of Spec
SmallSubs == 1

\* the clock moves in steps of TickMs, MaxTicks times at most
TickMs == 30000

MaxTicks == 3

Invocations == 1..MaxInvocations

Min(a, b) == IF a < b THEN a ELSE b

(***************************************************************************)
(* Inputs: stream events and persistence results                           *)
(***************************************************************************)
\* Record i of a stream event. "uniform" events hold created and updated
\* resources of tenant T1; "mixed" events also hold removals, resources of
\* tenant T2 and images that are not resource-shaped.
ChangeRecord(i, pattern) ==
    IF pattern = "uniform"
    THEN [eventName |-> IF i % 2 = 1 THEN "INSERT" ELSE "MODIFY",
          shaped    |-> TRUE,
          image     |-> [resourceType |-> "Patient", id |-> i,
                         _tenantId |-> "T1",
                         code |-> IF i % 8 = 3 THEN "inactive" ELSE "active"]]
    ELSE [eventName |-> IF i % 3 = 1 THEN "REMOVE"
                        ELSE IF i % 3 = 2 THEN "INSERT" ELSE "MODIFY",
          shaped    |-> (i % 5 # 0),
          image     |-> [resourceType |-> "Patient", id |-> i,
                         _tenantId |-> IF i % 4 = 2 THEN "T2" ELSE "T1",
                         code |-> IF i % 4 = 3 THEN "inactive" ELSE "active"]]

Patterns == {"uniform", "mixed"}

StreamEvent(n, pattern) == [i \in 1..n |-> ChangeRecord(i, pattern)]

StreamEvents(maxLen) ==
    {StreamEvent(n, p) : n \in 0..maxLen, p \in Patterns}

\* the events of the overlapping invocations of Spec: one that leads to no
\* publish and one that leads to a publish when a subscription is active
OverlapEvents == {StreamEvent(0, "uniform"), StreamEvent(1, "uniform")}

\* Raw subscription record i of the persistence layer; bad = i makes it one
\* that parseSubscription rejects.
RawSubscription(i, bad) ==
    [id          |-> i,
     tenantId    |-> IF i % 4 = 0 THEN "T2" ELSE "T1",
     criteria    |-> IF i % 3 = 1 THEN {"active"} ELSE {"active", "inactive"},
     channelType |-> IF i % 2 = 1 THEN "rest-hook" ELSE "email",
     endpoint    |-> IF i % 2 = 1 THEN "https://a.example" ELSE "mailto:b",
     valid       |-> (i # bad)]

\* What persistence.getActiveSubscriptions may answer: a failure, or n raw
\* records of which at most one (bad > 0) is malformed.
PersistenceResults(maxLen) ==
    {[ok |-> FALSE, records |-> <<>>]} \cup
    {[ok |-> TRUE, records |-> [i \in 1..n |-> RawSubscription(i, bad)]] :
        n \in 0..maxLen, bad \in 0..maxLen}

(***************************************************************************)
(* subscriptions.ts and InMemoryMatcher: helpers match() calls             *)
(***************************************************************************)
\* the eligible resources of an event, in the order of the event
filterOutIneligibleResources(event) ==
    LET keep(r) == r.eventName \in {"INSERT", "MODIFY"} /\ r.shaped
        kept == SelectSeq(event, keep)
    IN  [i \in 1..Len(kept) |-> kept[i].image]

parseSubscription(raw) ==
    [id             |-> raw.id,
     tenantId       |-> raw.tenantId,
     parsedCriteria |-> raw.criteria,
     channelType    |-> raw.channelType,
     endpoint       |-> raw.endpoint]

matchParsedFhirQueryParams(parsedCriteria, resource) ==
    resource.code \in parsedCriteria

buildNotification(subscription, resource) ==
    [subscriptionId  |-> subscription.id,
     channelType     |-> subscription.channelType,
     endpoint        |-> subscription.endpoint,
     matchedResource |-> resource]

\* lodash chunk(array, size)
chunk(array, size) ==
    IF size < 1 THEN <<>>
    ELSE [b \in 1..((Len(array) + size - 1) \div size) |->
            SubSeq(array, (b - 1) * size + 1, Min(b * size, Len(array)))]

(***************************************************************************)
(* StreamSubscriptionMatcher.ts                                            *)
(***************************************************************************)
\* mutant: the tenant comparison of line 35 dropped
matchSubscription_NoTenant(subscription, resource) ==
    matchParsedFhirQueryParams(subscription.parsedCriteria, resource)

matchSubscription(subscription, resource) ==
    /\ subscription.tenantId = resource._tenantId
    /\ matchParsedFhirQueryParams(subscription.parsedCriteria, resource)

\* mutant: records that do not parse are skipped
loadFn_SkipMalformed(persistenceResult) ==
    IF ~persistenceResult.ok
    THEN [ok |-> FALSE, value |-> <<>>]
    ELSE LET valid(raw) == raw.valid
             kept == SelectSeq(persistenceResult.records, valid)
         IN  [ok |-> TRUE,
              value |-> [i \in DOMAIN kept |-> parseSubscription(kept[i])]]

\* the loader handed to AsyncRefreshCache: getActiveSubscriptions, then
\* parseSubscription on every record; either of them throwing fails the load
loadFn(persistenceResult) ==
    IF ~persistenceResult.ok
       \/ \E i \in DOMAIN persistenceResult.records :
              ~persistenceResult.records[i].valid
    THEN [ok |-> FALSE, value |-> <<>>]
    ELSE [ok |-> TRUE,
          value |-> [i \in DOMAIN persistenceResult.records |->
                        parseSubscription(persistenceResult.records[i])]]

\* The list a successful load returns is a new array (the map of line 76):
\* a list that get() handed to a match() earlier is not written by a later
\* load.
\* mutant: the loader refills the one array it handed out before
HeldListAfterLoad_InPlace(held, result) ==
    IF result.ok /\ held # <<>> THEN result.value ELSE held

HeldListAfterLoad(held, result) == held

\* what the loader got from persistence: an error, a list with a record
\* that parseSubscription rejects, or a list of well-formed records
AnswerKind(persistenceResult) ==
    IF ~persistenceResult.ok THEN "error"
    ELSE IF \E i \in DOMAIN persistenceResult.records :
                ~persistenceResult.records[i].valid
    THEN "malformed"
    ELSE "wellformed"

\* mutant: the records of the event used unfiltered
EligibleResources_Unfiltered(event) ==
    [i \in 1..Len(event) |-> event[i].image]

EligibleResources(event) == filterOutIneligibleResources(event)

RECURSIVE FlatMap(_, _)
FlatMap(subscriptions, eligibleResources) ==
    IF subscriptions = <<>> THEN <<>>
    ELSE LET subscription == Head(subscriptions)
             matching(resource) == matchSubscription(subscription, resource)
             matched == SelectSeq(eligibleResources, matching)
         IN  [i \in 1..Len(matched) |->
                 buildNotification(subscription, matched[i])]
             \o FlatMap(Tail(subscriptions), eligibleResources)

SubscriptionNotifications(activeSubscriptions, eligibleResources) ==
    FlatMap(activeSubscriptions, eligibleResources)

\* mutant: batches one entry too long
NotificationBatches_OffByOne(subscriptionNotifications) ==
    chunk(subscriptionNotifications, SNS_MAX_BATCH_SIZE + 1)

NotificationBatches(subscriptionNotifications) ==
    chunk(subscriptionNotifications, SNS_MAX_BATCH_SIZE)

\* mutant: a loop that awaits each send before it issues the next
IssuePublishes_Serial(batches) ==
    [b \in DOMAIN batches |->
        [entries |-> batches[b],
         status |-> IF b = 1 THEN "inflight" ELSE "unissued"]]

\* one snsClient.send per batch, all of them issued by the one map() call
IssuePublishes(batches) ==
    [b \in DOMAIN batches |-> [entries |-> batches[b], status |-> "inflight"]]

\* mutant: rejections of the publishes dropped (a catch on every send)
PromiseAll_IgnoreFailures(published) ==
    IF \A b \in DOMAIN published : published[b].status \in {"ok", "failed"}
        THEN "done"
    ELSE "awaitAll"

\* await Promise.all(...): rejects with the first rejection, resolves when
\* every publish has resolved
PromiseAll(published) ==
    IF \E b \in DOMAIN published : published[b].status = "failed"
        THEN "failed"
    ELSE IF \A b \in DOMAIN published : published[b].status = "ok"
        THEN "done"
    ELSE "awaitAll"

NotStarted ==
    [pc |-> "notStarted", event |-> <<>>, eligibleResources |-> <<>>,
     getBranch |-> "none", loadId |-> 0, awaited |-> <<>>,
     activeSubscriptions |-> <<>>, subscriptionNotifications |-> <<>>,
     published |-> <<>>, error |-> "none"]

\* match() suspended at its await of get(), whose promise holds the list
GetAnswered(m, value) == [m EXCEPT !.pc = "awaitGet", !.awaited = value]

\* match() suspended at its await of get(), whose promise is rejected
GetRejected(m) == [m EXCEPT !.pc = "getRejected"]

\* match() from its resumption with the list to its await of Promise.all,
\* where it is suspended whatever the number of publishes
AfterGet(m, activeSubscriptions) ==
    LET notifications ==
            SubscriptionNotifications(activeSubscriptions, m.eligibleResources)
        published == IssuePublishes(NotificationBatches(notifications))
    IN  [m EXCEPT !.pc = "awaitAll",
                  !.activeSubscriptions = activeSubscriptions,
                  !.subscriptionNotifications = notifications,
                  !.published = published]

\* mutant: the error of get() caught, the cycle run on an empty list
GetFailed_Swallowed(m) ==
    [m EXCEPT !.pc = "done"]

\* match() when get() throws
GetFailed(m) == [m EXCEPT !.pc = "failed", !.error = "load"]

\* match() after its await of Promise.all: line 137 and the return, or the
\* rejection raised to the caller
AfterAll(m) ==
    LET pc == PromiseAll(m.published)
    IN  [m EXCEPT !.pc = pc,
                  !.error = IF pc = "failed" THEN "publish" ELSE @]

\* the continuation of a suspended match() whose awaited promise is settled
Continuation(m) ==
    IF m.pc = "awaitGet" THEN AfterGet(m, m.awaited)
    ELSE IF m.pc = "getRejected" THEN GetFailed(m)
    ELSE AfterAll(m)

(***************************************************************************)
(* AsyncRefreshCache                                                       *)
(***************************************************************************)
IsStale ==
    now - cache.lastRefreshStartedAt > ACTIVE_SUBSCRIPTIONS_CACHE_REFRESH_TIMEOUT

\* mutant: every get() on an empty cache starts a load of its own
StartsLoader_NoJoin ==
    \/ ~cache.hasValue
    \/ ~cache.pending /\ IsStale

\* mutant: every get() on a stale value starts a refresh of its own
StartsLoader_NoMarker ==
    \/ ~cache.hasValue /\ ~cache.pending
    \/ cache.hasValue /\ IsStale

\* get() starts the loader: on an empty cache unless a load is pending, on a
\* stale value unless a refresh is pending
StartsLoader ==
    /\ ~cache.pending
    /\ (~cache.hasValue \/ IsStale)

\* which way get() goes, for the invocation that calls it now
GetBranch ==
    IF ~cache.hasValue
    THEN (IF cache.pending THEN "joinLoad" ELSE "firstLoad")
    ELSE IF IsStale
    THEN (IF cache.pending THEN "stalePending" ELSE "staleRefresh")
    ELSE "fresh"

CacheAfterGet ==
    IF StartsLoader
    THEN [cache EXCEPT !.pending = TRUE, !.pendingStartedAt = now]
    ELSE cache

\* mutant: a failed load advances the refresh clock all the same
CacheAfterLoad_AdvanceOnFailure(result) ==
    IF result.ok
    THEN [hasValue |-> TRUE, value |-> result.value,
          lastRefreshStartedAt |-> cache.pendingStartedAt,
          pending |-> FALSE, pendingStartedAt |-> 0]
    ELSE [cache EXCEPT !.lastRefreshStartedAt = cache.pendingStartedAt,
                       !.pending = FALSE, !.pendingStartedAt = 0]

\* mutant: a failed load leaves the rejected promise as the pending load
CacheAfterLoad_KeepFailed(result) ==
    IF result.ok
    THEN [hasValue |-> TRUE, value |-> result.value,
          lastRefreshStartedAt |-> cache.pendingStartedAt,
          pending |-> FALSE, pendingStartedAt |-> 0]
    ELSE cache

CacheAfterLoad(result) ==
    IF result.ok
    THEN [hasValue |-> TRUE, value |-> result.value,
          lastRefreshStartedAt |-> cache.pendingStartedAt,
          pending |-> FALSE, pendingStartedAt |-> 0]
    ELSE [cache EXCEPT !.pending = FALSE, !.pendingStartedAt = 0]

(***************************************************************************)
(* QueryBuilder/typeQueries/tokenQuery.ts                                  *)
(***************************************************************************)
\* an absent argument or property (undefined)
UNDEFINED == "<undefined>"

FIELDS_WITHOUT_KEYWORD == {"id"}

\* mutant: a modifier gets supported
SUPPORTED_MODIFIERS_Missing == {"missing"}

SUPPORTED_MODIFIERS == {}

\* the nodes of the query that tokenQuery builds; a bool node holds its
\* clauses either as one object (array = FALSE) or as a list
MultiMatch(fields, query) ==
    [type |-> "multi_match", fields |-> fields, query |-> query,
     lenient |-> TRUE]

Term(field, value) == [type |-> "term", field |-> field, value |-> value]

Exists(field) == [type |-> "exists", field |-> field]

Bool(occur, array, clauses) ==
    [type |-> "bool", occur |-> occur, array |-> array, clauses |-> clauses]

NoQuery == [type |-> "none"]

\* a string in a condition: undefined and the empty string are falsy
Truthy(string) == string # UNDEFINED /\ string # ""

\* line 24
ModifierRejected(modifier) ==
    Truthy(modifier) /\ modifier \notin SUPPORTED_MODIFIERS

\* mutant: the exclusion list not consulted
UseKeywordSuffix_NoExclusion(compiled, useKeywordSubFields) ==
    useKeywordSubFields

\* line 39
UseKeywordSuffix(compiled, useKeywordSubFields) ==
    useKeywordSubFields /\ compiled.path \notin FIELDS_WITHOUT_KEYWORD

\* line 40
KeywordSuffix(compiled, useKeywordSubFields) ==
    IF UseKeywordSuffix(compiled, useKeywordSubFields) THEN ".keyword"
    ELSE ""

\* lines 47 to 61
SystemQueries(compiled, system, keywordSuffix) ==
    IF system # UNDEFINED
    THEN << MultiMatch(<< compiled.path \o ".system" \o keywordSuffix,
                          compiled.path \o ".coding.system" \o keywordSuffix >>,
                       system) >>
    ELSE <<>>

\* mutant: the bare field never added
CodeFields_NoBare(compiled, useKeywordSuffix, keywordSuffix) ==
    << compiled.path \o ".code" \o keywordSuffix,
       compiled.path \o ".coding.code" \o keywordSuffix,
       compiled.path \o ".value" \o keywordSuffix,
       compiled.path \o keywordSuffix >>

\* lines 68 to 78
CodeFields(compiled, useKeywordSuffix, keywordSuffix) ==
    << compiled.path \o ".code" \o keywordSuffix,
       compiled.path \o ".coding.code" \o keywordSuffix,
       compiled.path \o ".value" \o keywordSuffix,
       compiled.path \o keywordSuffix >>
    \o (IF useKeywordSuffix THEN << compiled.path >> ELSE <<>>)

\* mutant: the branches for intent removed
CodeQueries_NoOverride(compiled, code, fields) ==
    IF code = UNDEFINED THEN <<>>
    ELSE << MultiMatch(fields, code) >>

\* lines 63 to 105
CodeQueries(compiled, code, fields) ==
    IF code = UNDEFINED THEN <<>>
    ELSE IF compiled.path = "intent" /\ code = "order"
    THEN << Bool("must", FALSE, << Term("intent", "order") >>) >>
    ELSE IF compiled.path = "intent" /\ code = "original-order"
    THEN << Bool("must", FALSE, << Term("intent", "original-order") >>) >>
    ELSE << MultiMatch(fields, code) >>

\* lines 107 to 117
NoSystemQueries(compiled, explicitNoSystemProperty) ==
    IF explicitNoSystemProperty = "true"
    THEN << Bool("must_not", FALSE,
                 << Exists(compiled.path \o ".system") >>) >>
    ELSE <<>>

\* mutant: the list always wrapped
Combine_AlwaysWrap(queries) == Bool("must", TRUE, queries)

\* mutant: the first element returned unless there are several
Combine_FirstUnlessSeveral(queries) ==
    IF Len(queries) = 0 THEN NoQuery
    ELSE IF Len(queries) = 1 THEN queries[1]
    ELSE Bool("must", TRUE, queries)

\* lines 119 to 133
Combine(queries) ==
    IF Len(queries) = 1 THEN queries[1]
    ELSE Bool("must", TRUE, queries)

tokenQuery(compiled, value, useKeywordSubFields, modifier) ==
    IF ModifierRejected(modifier)
    THEN [state |-> "threw", error |-> "InvalidSearchParameterError",
          query |-> NoQuery]
    ELSE LET useKeywordSuffix ==
                 UseKeywordSuffix(compiled, useKeywordSubFields)
             keywordSuffix == KeywordSuffix(compiled, useKeywordSubFields)
             queries ==
                 SystemQueries(compiled, value.system, keywordSuffix)
                 \o CodeQueries(compiled, value.code,
                        CodeFields(compiled, useKeywordSuffix, keywordSuffix))
                 \o NoSystemQueries(compiled, value.explicitNoSystemProperty)
         IN  [state |-> "returned", error |-> "none",
              query |-> Combine(queries)]

\* the arguments of a call
TokenPaths == {"intent", "id", "status", "identifier"}

TokenSystems == {UNDEFINED, "", "http://hl7.org/fhir/request-intent"}

TokenCodes == {UNDEFINED, "order", "original-order", "active"}

\* the optional boolean explicitNoSystemProperty
TokenNoSystemFlags == {UNDEFINED, "false", "true"}

TokenModifiers == {UNDEFINED, "", "missing", "not"}

TokenQueryCalls ==
    [compiled : [path : TokenPaths, type : {"token"}],
     value : [system : TokenSystems, code : TokenCodes,
              explicitNoSystemProperty : TokenNoSystemFlags],
     useKeywordSubFields : BOOLEAN,
     modifier : TokenModifiers,
     state : {"called"}, error : {"none"}, query : {NoQuery}]

NoTokenQueryCall ==
    [compiled |-> [path |-> "", type |-> "token"],
     value |-> [system |-> UNDEFINED, code |-> UNDEFINED,
                explicitNoSystemProperty |-> UNDEFINED],
     useKeywordSubFields |-> FALSE, modifier |-> UNDEFINED,
     state |-> "none", error |-> "none", query |-> NoQuery]

(***************************************************************************)
(* Actions                                                                 *)
(***************************************************************************)
MatcherInit ==
    /\ now = 0
    /\ cache = [hasValue |-> FALSE, value |-> <<>>, lastRefreshStartedAt |-> 0,
                pending |-> FALSE, pendingStartedAt |-> 0]
    /\ loaderStarts = 0
    /\ loaderSettles = 0
    /\ lastLoad = "none"
    /\ lastAnswer = "none"
    /\ inv = [i \in Invocations |-> NotStarted]
    /\ microtasks = <<>>

Init ==
    /\ MatcherInit
    /\ tq = NoTokenQueryCall

\* a continuation is queued: it runs before any external event is handled
ContinuationQueued == microtasks # <<>>

\* the invocations blocked on the load, in the order of their calls
WaitingOnLoad ==
    SelectSeq([i \in Invocations |-> i], LAMBDA i : inv[i].pc = "waitLoad")

\* match(event) is called: lines 98 to 103, up to the await of get(), where
\* match() returns its promise to the caller
Match(i, event) ==
    /\ inv[i].pc = "notStarted"
    /\ \A j \in Invocations : j < i => inv[j].pc # "notStarted"
    /\ LET called == [inv[i] EXCEPT
                         !.event = event,
                         !.eligibleResources = EligibleResources(event),
                         !.getBranch = GetBranch,
                         !.loadId = IF StartsLoader THEN loaderStarts + 1
                                    ELSE loaderStarts]
       IN  inv' = [inv EXCEPT ![i] =
                      IF cache.hasValue THEN GetAnswered(called, cache.value)
                      ELSE [called EXCEPT !.pc = "waitLoad"]]
    /\ microtasks' = IF cache.hasValue THEN Append(microtasks, i)
                      ELSE microtasks
    /\ cache' = CacheAfterGet
    /\ loaderStarts' = IF StartsLoader THEN loaderStarts + 1 ELSE loaderStarts
    /\ UNCHANGED <<now, loaderSettles, lastLoad, lastAnswer, tq>>

\* the first continuation of the queue runs: match() from line 103 to its
\* await at line 122, or from there to its end.  Promise.all of no publish
\* is resolved at once, and its continuation goes to the end of the queue
RunContinuation ==
    /\ microtasks # <<>>
    /\ LET i == Head(microtasks)
           m == Continuation(inv[i])
       IN  /\ inv' = [inv EXCEPT ![i] = m]
           /\ microtasks' =
                  IF m.pc = "awaitAll" /\ m.published = <<>>
                  THEN Append(Tail(microtasks), i)
                  ELSE Tail(microtasks)
    /\ UNCHANGED <<now, cache, loaderStarts, loaderSettles, lastLoad,
                   lastAnswer, tq>>

\* the pending loader settles; a first load settles the get() of every
\* blocked match(), whose continuations are queued
LoaderSettles(persistenceResult) ==
    /\ cache.pending
    /\ ~ContinuationQueued
    /\ LET result == loadFn(persistenceResult)
       IN  /\ cache' = CacheAfterLoad(result)
           /\ inv' = [i \in Invocations |->
                        IF inv[i].pc # "waitLoad"
                        THEN [inv[i] EXCEPT !.activeSubscriptions =
                                 HeldListAfterLoad(@, result)]
                        ELSE IF result.ok
                        THEN GetAnswered(inv[i], result.value)
                        ELSE GetRejected(inv[i])]
           /\ microtasks' = WaitingOnLoad
           /\ lastLoad' = IF result.ok THEN "ok" ELSE "failed"
    /\ lastAnswer' = AnswerKind(persistenceResult)
    /\ loaderSettles' = loaderSettles + 1
    /\ UNCHANGED <<now, loaderStarts, tq>>

\* one publish settles; when that settles Promise.all of its match(), which
\* still awaits it, the continuation of match() is queued
PublishSettles(i, b, ok) ==
    /\ ~ContinuationQueued
    /\ b \in DOMAIN inv[i].published
    /\ inv[i].published[b].status = "inflight"
    /\ LET published == [inv[i].published EXCEPT
                            ![b].status = IF ok THEN "ok" ELSE "failed"]
       IN  /\ inv' = [inv EXCEPT ![i].published = published]
           /\ microtasks' =
                  IF inv[i].pc = "awaitAll" /\ PromiseAll(published) # "awaitAll"
                  THEN <<i>>
                  ELSE <<>>
    /\ UNCHANGED <<now, cache, loaderStarts, loaderSettles, lastLoad, lastAnswer, tq>>

Tick ==
    /\ now < MaxTicks * TickMs
    /\ now' = now + TickMs
    /\ UNCHANGED <<cache, loaderStarts, loaderSettles, lastLoad, lastAnswer, inv,
                   microtasks, tq>>

\* overlapping invocations, small events of created and updated resources
Next ==
    \/ \E i \in Invocations, event \in OverlapEvents : Match(i, event)
    \/ RunContinuation
    \/ \E r \in PersistenceResults(SmallSubs) : LoaderSettles(r)
    \/ \E i \in Invocations, b \in 1..SNS_MAX_BATCH_SIZE, ok \in BOOLEAN :
           PublishSettles(i, b, ok)
    \/ Tick

Spec == Init /\ [][Next]_vars

\* one invocation, full-size events
NextDispatch ==
    \/ \E event \in StreamEvents(MaxRecords) : Match(1, event)
    \/ \E r \in PersistenceResults(MaxSubs) : LoaderSettles(r)
    \/ RunContinuation
    \/ \E b \in 1..SNS_MAX_BATCH_SIZE, ok \in BOOLEAN : PublishSettles(1, b, ok)

SpecDispatch == Init /\ [][NextDispatch]_vars

\* one call of tokenQuery, on any of the arguments
InitToken ==
    /\ MatcherInit
    /\ tq \in TokenQueryCalls

TokenQueryReturns ==
    /\ tq.state = "called"
    /\ LET out == tokenQuery(tq.compiled, tq.value, tq.useKeywordSubFields,
                             tq.modifier)
       IN  tq' = [tq EXCEPT !.state = out.state, !.error = out.error,
                            !.query = out.query]
    /\ UNCHANGED <<now, cache, loaderStarts, loaderSettles, lastLoad,
                   lastAnswer, inv, microtasks>>

NextToken == TokenQueryReturns

SpecToken == InitToken /\ [][NextToken]_vars

(***************************************************************************)
(* Properties of the dispatch cycle, checked under SpecDispatch            *)
(***************************************************************************)
\* the continuation of match() i is queued
Queued(i) == \E k \in DOMAIN microtasks : microtasks[k] = i

\* match() got its snapshot and computed and issued its notifications
Dispatched(i) ==
    \/ inv[i].pc \in {"awaitAll", "done"}
    \/ inv[i].pc = "failed" /\ inv[i].error = "publish"

\* the number of notifications of cycle i for subscription s and resource r
NotificationCount(i, s, r) ==
    Cardinality({k \in DOMAIN inv[i].subscriptionNotifications :
        /\ inv[i].subscriptionNotifications[k].subscriptionId
               = inv[i].activeSubscriptions[s].id
        /\ inv[i].subscriptionNotifications[k].matchedResource
               = inv[i].eligibleResources[r]})

CeilDiv(n, d) == (n + d - 1) \div d

RECURSIVE ConcatEntries(_)
ConcatEntries(published) ==
    IF published = <<>> THEN <<>>
    ELSE Head(published).entries \o ConcatEntries(Tail(published))

\* C1: in every cycle, each pair of a subscription of the snapshot and an
\* eligible resource has exactly one notification when the tenant ids are
\* equal and the criteria evaluate to true on the resource, and none
\* otherwise; the cycle has no other notification.
C1_MatchIffTenantAndCriteria ==
    \A i \in Invocations : Dispatched(i) =>
        /\ \A s \in DOMAIN inv[i].activeSubscriptions,
              r \in DOMAIN inv[i].eligibleResources :
              NotificationCount(i, s, r) =
                 IF /\ inv[i].activeSubscriptions[s].tenantId
                          = inv[i].eligibleResources[r]._tenantId
                    /\ matchParsedFhirQueryParams(
                          inv[i].activeSubscriptions[s].parsedCriteria,
                          inv[i].eligibleResources[r])
                 THEN 1 ELSE 0
        /\ \A k \in DOMAIN inv[i].subscriptionNotifications :
              \E s \in DOMAIN inv[i].activeSubscriptions,
                 r \in DOMAIN inv[i].eligibleResources :
                 inv[i].subscriptionNotifications[k]
                    = buildNotification(inv[i].activeSubscriptions[s],
                                        inv[i].eligibleResources[r])

\* a cycle with a notification, and with a pair whose criteria match but
\* whose tenants differ
C1_Witness ==
    \E i \in Invocations :
        /\ Dispatched(i)
        /\ inv[i].subscriptionNotifications # <<>>
        /\ \E s \in DOMAIN inv[i].activeSubscriptions,
              r \in DOMAIN inv[i].eligibleResources :
              /\ inv[i].activeSubscriptions[s].tenantId
                    # inv[i].eligibleResources[r]._tenantId
              /\ matchParsedFhirQueryParams(
                    inv[i].activeSubscriptions[s].parsedCriteria,
                    inv[i].eligibleResources[r])
              /\ NotificationCount(i, s, r) = 0

\* C2: every published notification's matchedResource is the image of a
\* record of the cycle's event whose event type is INSERT or MODIFY; a
\* REMOVE record produces none.
C2_RemoveNeverNotifies ==
    \A i \in Invocations :
        \A b \in DOMAIN inv[i].published :
            \A e \in DOMAIN inv[i].published[b].entries :
                /\ \E k \in DOMAIN inv[i].event :
                      /\ inv[i].event[k].eventName \in {"INSERT", "MODIFY"}
                      /\ inv[i].event[k].image
                            = inv[i].published[b].entries[e].matchedResource
                /\ ~ \E k \in DOMAIN inv[i].event :
                      /\ inv[i].event[k].eventName = "REMOVE"
                      /\ inv[i].event[k].image
                            = inv[i].published[b].entries[e].matchedResource

\* a cycle that published, on an event with a REMOVE record that a
\* subscription of the snapshot matches by tenant and criteria
C2_Witness ==
    \E i \in Invocations :
        /\ Dispatched(i)
        /\ inv[i].published # <<>>
        /\ \E k \in DOMAIN inv[i].event,
              s \in DOMAIN inv[i].activeSubscriptions :
              /\ inv[i].event[k].eventName = "REMOVE"
              /\ inv[i].event[k].shaped
              /\ inv[i].activeSubscriptions[s].tenantId
                    = inv[i].event[k].image._tenantId
              /\ matchParsedFhirQueryParams(
                    inv[i].activeSubscriptions[s].parsedCriteria,
                    inv[i].event[k].image)

\* C3: the publish calls of a cycle hold the cycle's notifications, each
\* once and in order, in batches of at most 10 of which none is empty and
\* all but the last hold exactly 10; no notification, no publish call; 23
\* notifications, batches of 10, 10 and 3.
C3_BatchesPartition ==
    \A i \in Invocations : Dispatched(i) =>
        LET P == inv[i].published
            N == inv[i].subscriptionNotifications
        IN  /\ ConcatEntries(P) = N
            /\ \A b \in DOMAIN P :
                  /\ Len(P[b].entries) >= 1
                  /\ Len(P[b].entries) <= 10
                  /\ b < Len(P) => Len(P[b].entries) = 10
            /\ N = <<>> => P = <<>>
            /\ Len(N) = 23 =>
                  [b \in DOMAIN P |-> Len(P[b].entries)] = <<10, 10, 3>>

\* a cycle of 23 notifications
C3_Witness ==
    \E i \in Invocations :
        /\ Dispatched(i)
        /\ Len(inv[i].subscriptionNotifications) = 23
        /\ Len(inv[i].published) = 3

\* C4: in a cycle of k batches all k publish calls are issued before any of
\* them settles: once the cycle awaits, every batch has been sent, and no
\* step sends a batch of a cycle of which a batch has settled.
C4_AllPublishesIssuedTogether ==
    /\ [](\A i \in Invocations : Dispatched(i) =>
             /\ Len(inv[i].published)
                   = CeilDiv(Len(inv[i].subscriptionNotifications), 10)
             /\ \A b \in DOMAIN inv[i].published :
                   inv[i].published[b].status \in {"inflight", "ok", "failed"})
    /\ [][\A i \in Invocations :
             (\E b \in DOMAIN inv'[i].published :
                 /\ inv'[i].published[b].status = "inflight"
                 /\ \/ b \notin DOMAIN inv[i].published
                    \/ inv[i].published[b].status = "unissued")
             => \A c \in DOMAIN inv[i].published :
                    inv[i].published[c].status \notin {"ok", "failed"}]_vars

\* a cycle of three batches, all in flight
C4_Witness ==
    \E i \in Invocations :
        /\ inv[i].pc = "awaitAll"
        /\ Len(inv[i].published) = 3
        /\ \A b \in DOMAIN inv[i].published :
              inv[i].published[b].status = "inflight"

\* C5: match() has neither returned nor raised while a publish it issued is
\* still in flight.
C5_JoinAll ==
    \A i \in Invocations :
        inv[i].pc \in {"done", "failed"} =>
            \A b \in DOMAIN inv[i].published :
                inv[i].published[b].status # "inflight"

\* C6: a failed publish makes match() end in an error and nothing else: the
\* cycle's publish calls are those issued at the start, one per batch, never
\* re-issued, and match() completes successfully only when every publish
\* succeeded.
C6_FailureIsolatedAndReported ==
    /\ [](\A i \in Invocations : Dispatched(i) =>
             /\ (\E b \in DOMAIN inv[i].published :
                    inv[i].published[b].status = "failed")
                 => \/ inv[i].pc = "failed" /\ inv[i].error = "publish"
                    \/ inv[i].pc = "awaitAll" /\ Queued(i)
             /\ inv[i].pc = "done"
                 => \A b \in DOMAIN inv[i].published :
                        inv[i].published[b].status = "ok"
             /\ Len(inv[i].published)
                   = CeilDiv(Len(inv[i].subscriptionNotifications), 10))
    /\ [][\A i \in Invocations : Dispatched(i) =>
             /\ (/\ inv[i].pc = "awaitAll"
                 /\ inv'[i].pc # "awaitAll"
                 /\ \E b \in DOMAIN inv[i].published :
                        inv[i].published[b].status = "failed")
                   => inv'[i].pc = "failed" /\ inv'[i].error = "publish"
             /\ Len(inv'[i].published) = Len(inv[i].published)
             /\ \A b \in DOMAIN inv[i].published :
                   /\ inv'[i].published[b].entries
                         = inv[i].published[b].entries
                   /\ inv[i].published[b].status \in {"ok", "failed"}
                         => inv'[i].published[b].status
                               = inv[i].published[b].status]_vars

\* a cycle in which one publish failed and another one succeeded
C6_Witness ==
    \E i \in Invocations :
        /\ inv[i].pc = "failed"
        /\ \E b, c \in DOMAIN inv[i].published :
              /\ inv[i].published[b].status = "failed"
              /\ inv[i].published[c].status = "ok"

(***************************************************************************)
(* Properties of the subscription cache, checked under Spec                *)
(***************************************************************************)
\* match() i called get() on a cache that had never loaded a value
BlockedOnFirstLoad(i) == inv[i].getBranch \in {"firstLoad", "joinLoad"}

\* the get() of match() i has settled
Resumed(i) == inv[i].pc \notin {"notStarted", "waitLoad"}

\* the get() of match() i was rejected
Rejected(i) == inv[i].pc = "getRejected" \/ inv[i].error = "load"

\* C7: the callers that find the cache empty all wait on one load: at most
\* one loader invocation is in flight, every waiting caller waits on that
\* one, only the first of them started it, and callers of the same load
\* receive the same outcome, the same list or the same failure.
C7_SingleFlightFirstLoad ==
    /\ loaderStarts - loaderSettles \in {0, 1}
    /\ cache.pending <=> (loaderStarts - loaderSettles = 1)
    /\ \A i \in Invocations : inv[i].pc = "waitLoad" =>
          /\ BlockedOnFirstLoad(i)
          /\ ~cache.hasValue
          /\ cache.pending
          /\ inv[i].loadId = loaderStarts
    /\ \A i, j \in Invocations :
          (/\ BlockedOnFirstLoad(i) /\ BlockedOnFirstLoad(j)
           /\ inv[i].loadId = inv[j].loadId) =>
             /\ (i # j /\ inv[i].getBranch = "firstLoad")
                   => inv[j].getBranch = "joinLoad"
             /\ (Resumed(i) /\ Resumed(j)) =>
                   /\ Rejected(i) <=> Rejected(j)
                   /\ inv[i].awaited = inv[j].awaited
                   /\ (Dispatched(i) /\ Dispatched(j))
                         => inv[i].activeSubscriptions
                               = inv[j].activeSubscriptions
    /\ \A i \in Invocations : inv[i].getBranch = "joinLoad" =>
          \E j \in Invocations :
              /\ j < i
              /\ inv[j].getBranch = "firstLoad"
              /\ inv[j].loadId = inv[i].loadId

\* three callers were blocked on the first load, which ran once and gave
\* them its list
C7_Witness ==
    /\ loaderStarts = 1
    /\ loaderSettles = 1
    /\ cache.hasValue
    /\ cache.value # <<>>
    /\ \A i \in Invocations :
          /\ BlockedOnFirstLoad(i)
          /\ Resumed(i)
          /\ inv[i].loadId = 1
          /\ inv[i].activeSubscriptions = cache.value

\* C8: a get() on a loaded cache returns the stored value at once, stale or
\* not; past the refresh interval it starts a refresh unless one is
\* pending, and at most one loader invocation is ever in flight.
C8_StaleWhileRevalidate ==
    /\ [](/\ loaderStarts - loaderSettles \in {0, 1}
          /\ \A i \in Invocations :
                inv[i].getBranch \in {"fresh", "staleRefresh", "stalePending"}
                   => Resumed(i) /\ ~Rejected(i))
    /\ [][\A i \in Invocations :
             (/\ inv[i].pc = "notStarted"
              /\ inv'[i].pc # "notStarted"
              /\ cache.hasValue)
             => /\ inv'[i].pc = "awaitGet"
                /\ inv'[i].awaited = cache.value
                /\ cache'.value = cache.value
                /\ IF now - cache.lastRefreshStartedAt > 60000
                   THEN /\ cache'.pending
                        /\ loaderStarts' =
                              IF cache.pending THEN loaderStarts
                              ELSE loaderStarts + 1
                   ELSE /\ cache'.pending = cache.pending
                        /\ loaderStarts' = loaderStarts]_vars

\* two callers past the interval: the first started the refresh, the second
\* found it pending, both have the stale list and the refresh is in flight
C8_Witness ==
    /\ cache.hasValue
    /\ cache.pending
    /\ now - cache.lastRefreshStartedAt > 60000
    /\ loaderStarts = 2
    /\ \E i, j \in Invocations :
          /\ inv[i].getBranch = "staleRefresh"
          /\ inv[j].getBranch = "stalePending"
          /\ inv[i].loadId = 2
          /\ inv[j].loadId = 2
          /\ inv[i].activeSubscriptions = cache.value
          /\ inv[j].activeSubscriptions = cache.value

\* C9: when the loader fails on a cache that holds a value, no match()
\* changes state (none receives the error), the stored value and the
\* refresh clock stay as they were, the pending mark is cleared, and the
\* value is still past the interval, so that the next get() starts a new
\* loader invocation.
C9_BackgroundFailureSwallowed ==
    /\ [][(/\ loaderSettles' = loaderSettles + 1
           /\ cache.hasValue
           /\ lastLoad' = "failed")
          => /\ inv' = inv
             /\ cache'.hasValue
             /\ cache'.value = cache.value
             /\ cache'.lastRefreshStartedAt = cache.lastRefreshStartedAt
             /\ ~cache'.pending
             /\ now' - cache'.lastRefreshStartedAt > 60000]_vars
    /\ [][\A i \in Invocations :
             (/\ inv[i].pc = "notStarted"
              /\ inv'[i].pc # "notStarted"
              /\ cache.hasValue
              /\ ~cache.pending
              /\ now - cache.lastRefreshStartedAt > 60000)
             => /\ loaderStarts' = loaderStarts + 1
                /\ cache'.pending
                /\ inv'[i].pc = "awaitGet"
                /\ inv'[i].awaited = cache.value]_vars

\* the first load succeeded, the refresh after it failed, and the next
\* get() got the old list and started a third loader invocation
C9_Witness ==
    /\ cache.hasValue
    /\ lastLoad = "failed"
    /\ loaderSettles = 2
    /\ loaderStarts = 3
    /\ cache.pending
    /\ \E i \in Invocations :
          /\ inv[i].getBranch = "staleRefresh"
          /\ inv[i].loadId = 3
          /\ inv[i].activeSubscriptions = cache.value
          /\ inv[i].error # "load"

\* C10: when the loader fails on a cache that never held a value, every
\* caller blocked on it ends in that error, the cache stores nothing and
\* no pending load, and the next get() starts a new loader invocation and
\* waits on it.
C10_FirstLoadFailurePropagates ==
    /\ [][(/\ loaderSettles' = loaderSettles + 1
           /\ ~cache.hasValue
           /\ lastLoad' = "failed")
          => /\ \A i \in Invocations :
                   IF inv[i].pc = "waitLoad"
                   THEN /\ inv'[i].pc = "getRejected"
                        /\ Queued(i)'
                   ELSE inv'[i] = inv[i]
             /\ ~cache'.hasValue
             /\ cache'.value = <<>>
             /\ ~cache'.pending]_vars
    /\ [][\A i \in Invocations :
             (/\ inv[i].pc = "notStarted"
              /\ inv'[i].pc # "notStarted"
              /\ ~cache.hasValue
              /\ lastLoad = "failed")
             => /\ inv'[i].pc = "waitLoad"
                /\ cache'.pending
                /\ loaderStarts' =
                      IF cache.pending THEN loaderStarts
                      ELSE loaderStarts + 1]_vars
    /\ [][\A i \in Invocations :
             (inv[i].pc = "getRejected" /\ inv'[i] # inv[i])
             => /\ inv'[i].pc = "failed"
                /\ inv'[i].error = "load"
                /\ inv'[i].published = <<>>
                /\ inv'[i].subscriptionNotifications = <<>>]_vars
    /\ [](\A i \in Invocations :
             /\ inv[i].pc = "waitLoad" => cache.pending
             /\ inv[i].pc = "getRejected" => Queued(i))

\* two callers failed with the first load, and a later caller waits on a
\* second loader invocation
C10_Witness ==
    /\ ~cache.hasValue
    /\ lastLoad = "failed"
    /\ loaderStarts = 2
    /\ loaderSettles = 1
    /\ \E i, j, k \in Invocations :
          /\ i # j
          /\ inv[i].pc = "failed" /\ inv[i].error = "load"
          /\ inv[j].pc = "failed" /\ inv[j].error = "load"
          /\ inv[k].pc = "waitLoad"
          /\ inv[k].getBranch = "firstLoad"
          /\ inv[k].loadId = 2

(***************************************************************************)
(* Properties of a cycle beside the cache, checked under Spec              *)
(***************************************************************************)
\* C11: from the return of its get() on, a cycle keeps the list it got and
\* the notifications computed from it, whatever the loader stores in the
\* cache meanwhile; every notification of the cycle is built from a
\* subscription of that list, and every subscription of the list that
\* matches an eligible resource of the cycle has its notification.
C11_SnapshotFixedForCycle ==
    /\ [][\A i \in Invocations :
             /\ inv[i].pc = "awaitGet"
                   => /\ inv'[i].awaited = inv[i].awaited
                      /\ Dispatched(i)'
                            => inv'[i].activeSubscriptions = inv[i].awaited
             /\ Dispatched(i)
                   => /\ inv'[i].activeSubscriptions
                            = inv[i].activeSubscriptions
                      /\ inv'[i].subscriptionNotifications
                            = inv[i].subscriptionNotifications]_vars
    /\ [](\A i \in Invocations : Dispatched(i) =>
             /\ inv[i].activeSubscriptions = inv[i].awaited
             /\ \A k \in DOMAIN inv[i].subscriptionNotifications :
                   \E s \in DOMAIN inv[i].activeSubscriptions,
                      r \in DOMAIN inv[i].eligibleResources :
                      inv[i].subscriptionNotifications[k]
                         = buildNotification(inv[i].activeSubscriptions[s],
                                             inv[i].eligibleResources[r])
             /\ \A s \in DOMAIN inv[i].activeSubscriptions,
                   r \in DOMAIN inv[i].eligibleResources :
                   (/\ inv[i].activeSubscriptions[s].tenantId
                          = inv[i].eligibleResources[r]._tenantId
                    /\ matchParsedFhirQueryParams(
                          inv[i].activeSubscriptions[s].parsedCriteria,
                          inv[i].eligibleResources[r]))
                   => NotificationCount(i, s, r) = 1)

\* a cycle is dispatching the notifications of its list while a refresh
\* has completed and stored another list
C11_Witness ==
    \E i \in Invocations :
        /\ inv[i].pc = "awaitAll"
        /\ inv[i].subscriptionNotifications # <<>>
        /\ cache.hasValue
        /\ lastLoad = "ok"
        /\ loaderSettles >= 2
        /\ cache.value # inv[i].activeSubscriptions

\* C17: when one record of the persistence answer does not parse, the
\* loader invocation fails: the cache stores nothing of that answer, the
\* callers blocked on a first load end in the error, and nothing else
\* changes for the other cycles; the stored list changes only with an
\* answer of which every record parses.
C17_ParseFailureFailsWholeLoad ==
    /\ [][(/\ loaderSettles' = loaderSettles + 1
           /\ lastAnswer' = "malformed")
          => /\ lastLoad' = "failed"
             /\ cache'.hasValue = cache.hasValue
             /\ cache'.value = cache.value
             /\ \A i \in Invocations :
                   IF inv[i].pc = "waitLoad"
                   THEN inv'[i].pc = "getRejected"
                   ELSE inv'[i] = inv[i]]_vars
    /\ [][\A i \in Invocations :
             (inv[i].pc = "getRejected" /\ inv'[i].pc # "getRejected")
             => inv'[i].pc = "failed" /\ inv'[i].error = "load"]_vars
    /\ [][(cache'.value # cache.value \/ cache'.hasValue # cache.hasValue)
          => /\ loaderSettles' = loaderSettles + 1
             /\ lastAnswer' = "wellformed"]_vars

\* a refresh got an answer with a malformed record: the list loaded before
\* is still stored, and is what the cycle that started the refresh uses
C17_Witness ==
    /\ lastAnswer = "malformed"
    /\ lastLoad = "failed"
    /\ cache.hasValue
    /\ cache.value # <<>>
    /\ ~cache.pending
    /\ \E i \in Invocations :
          /\ inv[i].getBranch = "staleRefresh"
          /\ inv[i].loadId = loaderSettles
          /\ inv[i].activeSubscriptions = cache.value

\* C18: a cycle has issued no publish while its get() has not returned a
\* list, and a cycle whose get() failed ends in that error with no publish.
C18_NoPublishBeforeSnapshot ==
    /\ [](\A i \in Invocations :
             /\ inv[i].pc \in {"notStarted", "waitLoad", "awaitGet",
                               "getRejected"}
                   => inv[i].published = <<>>
             /\ inv[i].error = "load"
                   => inv[i].published = <<>> /\ inv[i].pc = "failed"
             /\ inv[i].published # <<>> => Dispatched(i))
    /\ [][(/\ loaderSettles' = loaderSettles + 1
           /\ lastLoad' = "failed")
          => \A i \in Invocations : inv[i].pc = "waitLoad" =>
                 /\ inv'[i].pc = "getRejected"
                 /\ inv'[i].published = <<>>]_vars
    /\ [][\A i \in Invocations :
             (inv[i].pc = "getRejected" /\ inv'[i].pc # inv[i].pc)
             => /\ inv'[i].pc = "failed"
                /\ inv'[i].error = "load"
                /\ inv'[i].published = <<>>]_vars

\* a cycle with an eligible resource failed on its get() without a publish,
\* and a later cycle got a list and published
C18_Witness ==
    \E i, j \in Invocations :
        /\ inv[i].pc = "failed"
        /\ inv[i].error = "load"
        /\ inv[i].eligibleResources # <<>>
        /\ inv[i].published = <<>>
        /\ inv[j].published # <<>>

(***************************************************************************)
(* Properties of tokenQuery, checked under SpecToken                       *)
(***************************************************************************)
EndsWith(string, suffix) ==
    /\ Len(string) >= Len(suffix)
    /\ SubSeq(string, Len(string) - Len(suffix) + 1, Len(string)) = suffix

RECURSIVE FieldsOf(_)
\* every field name that occurs in a query
FieldsOf(node) ==
    IF node.type = "multi_match"
    THEN {node.fields[k] : k \in 1..Len(node.fields)}
    ELSE IF node.type \in {"term", "exists"} THEN {node.field}
    ELSE IF node.type = "bool"
    THEN UNION {FieldsOf(node.clauses[k]) : k \in 1..Len(node.clauses)}
    ELSE {}

\* the components of the value that produce a clause, in the order of the code
TokenComponents ==
    SelectSeq(<<"system", "code", "noSystem">>,
              LAMBDA c : \/ c = "system" /\ tq.value.system # UNDEFINED
                         \/ c = "code" /\ tq.value.code # UNDEFINED
                         \/ c = "noSystem"
                            /\ tq.value.explicitNoSystemProperty = "true")

\* the clause at position k of the result: the result itself when it is
\* not a list of clauses
TokenClause(k) ==
    IF tq.query.type = "bool" /\ tq.query.array THEN tq.query.clauses[k]
    ELSE tq.query

IsIntentOverride ==
    /\ tq.compiled.path = "intent"
    /\ tq.value.code \in {"order", "original-order"}

\* the position of the clause made for the code
CodePosition == IF tq.value.system # UNDEFINED THEN 2 ELSE 1

SuffixApplies ==
    /\ tq.useKeywordSubFields
    /\ tq.compiled.path \notin FIELDS_WITHOUT_KEYWORD

\* C12: a call with a modifier throws InvalidSearchParameterError and returns
\* no query, whatever the modifier and whatever the value
C12_AnyModifierRejected ==
    (tq.state \in {"returned", "threw"} /\ Truthy(tq.modifier))
        => /\ tq.state = "threw"
           /\ tq.error = "InvalidSearchParameterError"
           /\ tq.query = NoQuery

C12_Witness ==
    /\ tq.state = "threw"
    /\ tq.modifier = "missing"
    /\ tq.value.code = "active"

\* C13 as stated: with the flag on and the path not excluded, every field
\* name of the result ends in .keyword; otherwise none does
C13_EveryFieldSuffixed ==
    tq.state = "returned"
        => \A f \in FieldsOf(tq.query) :
               EndsWith(f, ".keyword") <=> SuffixApplies

\* the field names the code builds without a suffix
UnsuffixedNames ==
    {tq.compiled.path \o stem :
        stem \in {"", ".system", ".coding.system", ".code", ".coding.code",
                  ".value"}}

\* C13: with the flag on and the path not excluded, the two candidates for
\* the system and the first four for the code end in .keyword, and the
\* fifth candidate, the field of the negated existence check and the field
\* of the term for intent do not; otherwise no suffix is appended to any
\* field name
C13_SuffixOnCandidatesOnly ==
    tq.state = "returned"
        => IF SuffixApplies
           THEN \A k \in 1..Len(TokenComponents) :
                  LET clause == TokenClause(k)
                  IN  /\ (TokenComponents[k] = "system")
                            => \A j \in 1..Len(clause.fields) :
                                   EndsWith(clause.fields[j], ".keyword")
                      /\ (TokenComponents[k] = "code" /\ ~IsIntentOverride)
                            => /\ \A j \in 1..4 :
                                     EndsWith(clause.fields[j], ".keyword")
                               /\ clause.fields[5] = tq.compiled.path
                      /\ (TokenComponents[k] = "code" /\ IsIntentOverride)
                            => FieldsOf(clause) = {"intent"}
                      /\ (TokenComponents[k] = "noSystem")
                            => FieldsOf(clause)
                                   = {tq.compiled.path \o ".system"}
           ELSE FieldsOf(tq.query) \subseteq UnsuffixedNames

C13_Witness ==
    /\ tq.state = "returned"
    /\ SuffixApplies
    /\ Len(TokenComponents) = 3
    /\ ~IsIntentOverride

\* C14 as stated: for the path intent and the code order or original-order
\* the clause for the code is a term clause on intent
C14_OverrideIsTerm ==
    (tq.state = "returned" /\ IsIntentOverride)
        => TokenClause(CodePosition) = Term("intent", tq.value.code)

\* C14: for the path intent and the code order or original-order the clause
\* for the code is a bool whose must is one term on intent with that code,
\* held as an object; it is the whole result when the code is the only
\* component
C14_OverrideIsMustOfTerm ==
    (tq.state = "returned" /\ IsIntentOverride)
        => /\ TokenClause(CodePosition)
                  = Bool("must", FALSE, << Term("intent", tq.value.code) >>)
           /\ (Len(TokenComponents) = 1)
                  => tq.query = Bool("must", FALSE,
                                     << Term("intent", tq.value.code) >>)

C14_Witness ==
    /\ tq.state = "returned"
    /\ tq.compiled.path = "intent"
    /\ tq.value.code = "original-order"
    /\ Len(TokenComponents) = 1

\* the clause is the one the component produces
ClauseIsFor(component, clause) ==
    IF component = "system"
    THEN /\ clause.type = "multi_match"
         /\ clause.query = tq.value.system
         /\ Len(clause.fields) = 2
    ELSE IF component = "code"
    THEN \/ /\ clause.type = "multi_match"
            /\ clause.query = tq.value.code
            /\ Len(clause.fields) \in {4, 5}
         \/ /\ IsIntentOverride
            /\ clause.type = "bool"
            /\ clause.occur = "must"
            /\ ~clause.array
    ELSE /\ clause.type = "bool"
         /\ clause.occur = "must_not"
         /\ ~clause.array

\* C15: clauses come in the order system, code, explicitNoSystemProperty;
\* a single clause is the result itself, and several are the list of a
\* bool must, all of them, in that order
C15_CombineInOrder ==
    (tq.state = "returned" /\ Len(TokenComponents) >= 1)
        => IF Len(TokenComponents) = 1
           THEN ClauseIsFor(TokenComponents[1], tq.query)
           ELSE /\ tq.query.type = "bool"
                /\ tq.query.occur = "must"
                /\ tq.query.array
                /\ Len(tq.query.clauses) = Len(TokenComponents)
                /\ \A k \in 1..Len(TokenComponents) :
                       ClauseIsFor(TokenComponents[k], tq.query.clauses[k])

C15_Witness ==
    /\ tq.state = "returned"
    /\ Len(TokenComponents) = 3
    /\ tq.query.type = "bool"
    /\ Len(tq.query.clauses) = 3

\* the four candidates for a code, with the suffix of the call
FourCandidates ==
    LET suffix == IF SuffixApplies THEN ".keyword" ELSE ""
    IN  << tq.compiled.path \o ".code" \o suffix,
           tq.compiled.path \o ".coding.code" \o suffix,
           tq.compiled.path \o ".value" \o suffix,
           tq.compiled.path \o suffix >>

\* C16 as stated: the multi-match for a code has the four candidates, and
\* the bare path as a fifth whenever useKeywordSubFields is true
C16_FifthWheneverFlag ==
    (tq.state = "returned" /\ tq.value.code # UNDEFINED /\ ~IsIntentOverride)
        => LET clause == TokenClause(CodePosition)
           IN  /\ clause.type = "multi_match"
               /\ clause.fields
                      = FourCandidates
                        \o (IF tq.useKeywordSubFields
                            THEN << tq.compiled.path >> ELSE <<>>)

\* C16: the multi-match for a code has the four candidates, and the bare
\* path as a fifth exactly when useKeywordSubFields is true and the path is
\* not in the exclusion list
C16_FifthWhenSuffixApplies ==
    (tq.state = "returned" /\ tq.value.code # UNDEFINED /\ ~IsIntentOverride)
        => LET clause == TokenClause(CodePosition)
           IN  /\ clause.type = "multi_match"
               /\ clause.query = tq.value.code
               /\ clause.lenient
               /\ clause.fields
                      = FourCandidates
                        \o (IF SuffixApplies
                            THEN << tq.compiled.path >> ELSE <<>>)

C16_Witness ==
    /\ tq.state = "returned"
    /\ tq.value.code = "active"
    /\ tq.compiled.path = "id"
    /\ tq.useKeywordSubFields
    /\ Len(TokenClause(CodePosition).fields) = 4

\* C19: a call without a modifier never fails; its result is the list of a
\* bool must exactly when the number of clauses is not one, and with no
\* clause at all that list is empty
C19_EmptyValueGivesEmptyMust ==
    (tq.state \in {"returned", "threw"} /\ ~Truthy(tq.modifier))
        => /\ tq.state = "returned"
           /\ (tq.query.type = "bool" /\ tq.query.array)
                  <=> Len(TokenComponents) # 1
           /\ (Len(TokenComponents) = 0)
                  => tq.query = Bool("must", TRUE, <<>>)

C19_Witness ==
    /\ tq.state = "returned"
    /\ Len(TokenComponents) = 0
    /\ tq.query = Bool("must", TRUE, <<>>)

=============================================================================
